---- MODULE Spec2Model ----
(***************************************************************************)
(* Model of the collection (invoice) service and the tires catalog        *)
(* service: FastAPI handlers over one MySQL database, one connection and   *)
(* one autocommitted statement per db.query / db.query_one / db.execute.   *)
(*                                                                         *)
(* The database tables are the state.  Every handler is an operator that   *)
(* maps the table(s) and the request to the new table(s) and the HTTP      *)
(* response; an action applies one handler to one request and records the  *)
(* response in resp.  Where the steps of concurrent requests matter, a     *)
(* request is split at its statements: pending and done hold the racing    *)
(* creates and their responses, calls the data-access call or list request *)
(* each client has running, connections the open database connections.    *)
(***************************************************************************)
EXTENDS Integers, Sequences, FiniteSets, TLC

VARIABLES collection, tires, resp, pending, done, calls, connections

vars == <<collection, tires, resp, pending, done, calls, connections>>

(***************************************************************************)
(* Optional values: Python None / SQL NULL / pandas NaN is the empty       *)
(* tuple, a present value v is the one-element tuple <<v>>.                *)
(***************************************************************************)
None == <<>>

Some(v) == <<v>>

IsNone(o) == o = None

Val(o) == o[1]

(***************************************************************************)
(* Bounds of the model.                                                    *)
(***************************************************************************)
\* longest uploaded file, in data rows
MaxBulkRows == 2

\* number of concurrent clients of the create endpoint
NumClients == 2

\* the highest page a list request asks for
MaxPage == 3

(***************************************************************************)
(* Calendar.  A date is the number of days since 2022-12-31, so that       *)
(* 2023-01-01 is day 1 (datetime.date, restricted to the years in Years).  *)
(***************************************************************************)
Years == 2023..2025

IsLeap(y) == (y % 4 = 0) /\ ((y % 100 # 0) \/ (y % 400 = 0))

DaysInYear(y) == IF IsLeap(y) THEN 366 ELSE 365

DaysInMonth(y, m) ==
    IF m = 2 THEN (IF IsLeap(y) THEN 29 ELSE 28)
    ELSE IF m \in {4, 6, 9, 11} THEN 30 ELSE 31

RECURSIVE DaysBeforeYear(_)
DaysBeforeYear(y) ==
    IF y <= 2023 THEN 0 ELSE DaysBeforeYear(y - 1) + DaysInYear(y - 1)

RECURSIVE DaysBeforeMonth(_, _)
DaysBeforeMonth(y, m) ==
    IF m <= 1 THEN 0 ELSE DaysBeforeMonth(y, m - 1) + DaysInMonth(y, m - 1)

\* date(y, m, d)
ToOrd(y, m, d) == DaysBeforeYear(y) + DaysBeforeMonth(y, m) + d

\* date.year, date.month, date.day
YearOf(n) ==
    CHOOSE y \in Years :
        DaysBeforeYear(y) < n /\ n <= DaysBeforeYear(y) + DaysInYear(y)

MonthOf(n) ==
    LET y == YearOf(n)
        k == n - DaysBeforeYear(y)
    IN  CHOOSE m \in 1..12 :
            DaysBeforeMonth(y, m) < k /\ k <= DaysBeforeMonth(y, m) + DaysInMonth(y, m)

DayOf(n) == n - DaysBeforeYear(YearOf(n)) - DaysBeforeMonth(YearOf(n), MonthOf(n))

\* the day of the week counted from Sunday = 0
WeekdayFromSunday(n) == (n + 6) % 7

\* date.weekday(): Monday is 0; 2023-01-01 (day 1) is a Sunday
Weekday(n) == (n + 5) % 7

\* date.replace(day=1)
FirstOfMonth(n) == n - DayOf(n) + 1

\* The ten period tokens of the enums endpoint.
Periods ==
    {"today", "yesterday", "current_week", "last_week", "current_month",
     "last_month", "last_3_months", "last_6_months", "current_year", "last_year"}

\* get_period_dates: [ok |-> TRUE, from, to], or ok |-> FALSE when it raises
\* HTTPException(status_code=400, "Invalid period").
get_period_dates(period, today) ==
    IF period = "today" THEN [ok |-> TRUE, from |-> today, to |-> today]
    ELSE IF period = "yesterday" THEN [ok |-> TRUE, from |-> today - 1, to |-> today - 1]
    ELSE IF period = "current_week" THEN
        [ok |-> TRUE, from |-> today - Weekday(today), to |-> today]
    ELSE IF period = "last_week" THEN
        LET start == today - (Weekday(today) + 7)
        IN  [ok |-> TRUE, from |-> start, to |-> start + 6]
    ELSE IF period = "current_month" THEN
        [ok |-> TRUE, from |-> FirstOfMonth(today), to |-> today]
    ELSE IF period = "last_month" THEN
        LET last_month_end == FirstOfMonth(today) - 1
        IN  [ok |-> TRUE, from |-> FirstOfMonth(last_month_end), to |-> last_month_end]
    ELSE IF period = "last_3_months" THEN
        [ok |-> TRUE, from |-> FirstOfMonth(FirstOfMonth(today) - 90), to |-> today]
    ELSE IF period = "last_6_months" THEN
        [ok |-> TRUE, from |-> FirstOfMonth(FirstOfMonth(today) - 180), to |-> today]
    ELSE IF period = "current_year" THEN
        [ok |-> TRUE, from |-> ToOrd(YearOf(today), 1, 1), to |-> today]
    ELSE IF period = "last_year" THEN
        [ok |-> TRUE, from |-> ToOrd(YearOf(today) - 1, 1, 1),
                      to |-> ToOrd(YearOf(today) - 1, 12, 31)]
    ELSE [ok |-> FALSE, from |-> 0, to |-> 0]

(***************************************************************************)
(* Record schemas (collection_models.py).                                  *)
(***************************************************************************)
ServiceEnum ==
    {"app", "sensors", "field_service", "installations", "spare_parts",
     "general_service", "tires", "hardware", "training"}

StatusEnum == {"pending", "partially_paid", "paid", "overdue", "cancelled"}

BranchEnum == {"Q1", "Q2", "QT"}

\* The twelve application-set columns, in the order of the INSERT statement.
Fields ==
    {"invoice_number", "company_id", "customer_name", "user_id", "service",
     "invoice_date", "due_date", "amount", "amount_paid", "status",
     "last_partial_payment_date", "branch"}

\* CollectionBase: the constraints a create payload and a response record meet.
CollectionBase(r) ==
    /\ r.invoice_number # ""
    /\ r.company_id > 0
    /\ r.customer_name # ""
    /\ r.user_id > 0
    /\ r.service \in ServiceEnum
    /\ r.amount >= 0
    /\ r.amount_paid >= 0
    /\ r.status \in StatusEnum
    /\ r.branch \in BranchEnum

\* CollectionUpdate: every field optional, None when not supplied.
NoUpdate == [f \in Fields |-> None]

(***************************************************************************)
(* The database.  collection is the table in id order; ids are assigned    *)
(* by AUTO_INCREMENT and rows are never removed, so the next id is the     *)
(* number of rows plus one.  The schema is not part of the sources: the    *)
(* unique key on invoice_number and the foreign keys on company_id and     *)
(* user_id are the ones the handlers' error mapping expects.               *)
(***************************************************************************)
Companies == {1, 2}

Users == {1}

DuplicateEntryMsg == "Duplicate entry for key 'invoice_number'"

ForeignKeyMsg == "Cannot add or update a child row: a foreign key constraint fails"

\* "Duplicate entry" in str(e)
HasDuplicateEntry(msg) == msg = DuplicateEntryMsg

\* "foreign key constraint" in str(e).lower()
HasForeignKey(msg) == msg = ForeignKeyMsg

Rows(tbl) == {tbl[i] : i \in 1..Len(tbl)}

\* unique key: another row (soft-deleted or not) holds the invoice number
UniqueViolation(tbl, inv, selfId) ==
    \E r \in Rows(tbl) : r.id # selfId /\ r.invoice_number = inv

\* foreign keys: company_id and user_id reference existing rows
ForeignKeyViolation(company_id, user_id) ==
    company_id \notin Companies \/ user_id \notin Users

\* The error a statement raises for the row values v; order is the order in
\* which the engine happens to check the two constraints.
ConstraintError(tbl, v, selfId, order) ==
    LET dup == UniqueViolation(tbl, v.invoice_number, selfId)
        fk == ForeignKeyViolation(v.company_id, v.user_id)
    IN  IF dup /\ fk THEN (IF order = "unique" THEN DuplicateEntryMsg ELSE ForeignKeyMsg)
        ELSE IF dup THEN DuplicateEntryMsg
        ELSE IF fk THEN ForeignKeyMsg
        ELSE ""

\* database.execute: lastrowid for an INSERT, rowcount otherwise
execute(lastrowid, rowcount) == IF lastrowid # 0 THEN lastrowid ELSE rowcount

\* INSERT INTO collection (...) VALUES (...), through db.execute
InsertCollection(tbl, v, order) ==
    LET err == ConstraintError(tbl, v, 0, order)
        id == Len(tbl) + 1
        row == [id |-> id,
                invoice_number |-> v.invoice_number,
                company_id |-> v.company_id,
                customer_name |-> v.customer_name,
                user_id |-> v.user_id,
                service |-> v.service,
                invoice_date |-> v.invoice_date,
                due_date |-> v.due_date,
                amount |-> v.amount,
                amount_paid |-> v.amount_paid,
                status |-> v.status,
                last_partial_payment_date |-> v.last_partial_payment_date,
                branch |-> v.branch,
                is_deleted |-> FALSE]
    IN  IF err # ""
        THEN [raised |-> TRUE, msg |-> err, ret |-> 0, tbl |-> tbl]
        ELSE [raised |-> FALSE, msg |-> "", ret |-> execute(id, 1),
              tbl |-> Append(tbl, row)]

\* the value a SET clause stores for a supplied field
ColumnValue(f, supplied) ==
    IF f = "last_partial_payment_date" THEN supplied ELSE Val(supplied)

\* UPDATE collection SET <supplied fields> WHERE id = %s AND is_deleted = 0.
\* rowcount counts the rows whose values changed (the connection does not
\* ask for found rows); constraints are checked for a row that changes.
UpdateCollectionRows(tbl, id, upd, order) ==
    LET hit == {i \in 1..Len(tbl) : tbl[i].id = id /\ ~tbl[i].is_deleted}
    IN  IF hit = {}
        THEN [raised |-> FALSE, msg |-> "", ret |-> execute(0, 0), tbl |-> tbl]
        ELSE
            LET i == CHOOSE j \in hit : TRUE
                old == tbl[i]
                new == [f \in DOMAIN old |->
                            IF f \in Fields /\ upd[f] # None
                            THEN ColumnValue(f, upd[f]) ELSE old[f]]
                err == ConstraintError(tbl, new, id, order)
            IN  IF new = old
                THEN [raised |-> FALSE, msg |-> "", ret |-> execute(0, 0), tbl |-> tbl]
                ELSE IF err # ""
                THEN [raised |-> TRUE, msg |-> err, ret |-> 0, tbl |-> tbl]
                ELSE [raised |-> FALSE, msg |-> "", ret |-> execute(0, 1),
                      tbl |-> [tbl EXCEPT ![i] = new]]

\* UPDATE collection SET is_deleted = 1 WHERE id = %s AND is_deleted = 0
SoftDeleteRows(tbl, id) ==
    LET hit == {i \in 1..Len(tbl) : tbl[i].id = id /\ ~tbl[i].is_deleted}
    IN  IF hit = {}
        THEN [raised |-> FALSE, msg |-> "", ret |-> execute(0, 0), tbl |-> tbl]
        ELSE LET i == CHOOSE j \in hit : TRUE
             IN  [raised |-> FALSE, msg |-> "", ret |-> execute(0, 1),
                  tbl |-> [tbl EXCEPT ![i].is_deleted = TRUE]]

(***************************************************************************)
(* Collection handlers (collection_main.py).  Each returns the HTTP        *)
(* status, the response body and the table after the call.                 *)
(***************************************************************************)
Reply(status, body, tbl) == [status |-> status, body |-> body, tbl |-> tbl]

\* ConstraintStatus without the "Duplicate entry" case
ConstraintStatusNoConflict(msg) ==
    IF HasForeignKey(msg) THEN 400 ELSE 500

\* the except-clause of create_collection and update_collection
ConstraintStatus(msg) ==
    IF HasDuplicateEntry(msg) THEN 409
    ELSE IF HasForeignKey(msg) THEN 400
    ELSE 500

create_collection(tbl, payload, order) ==
    LET r == InsertCollection(tbl, payload, order)
    IN  IF r.raised
        THEN Reply(ConstraintStatus(r.msg), <<r.msg>>, r.tbl)
        ELSE Reply(201, <<r.ret>>, r.tbl)

\* update_collection without the "No fields to update" check: the UPDATE
\* has an empty SET clause, a syntax error
update_collection_unchecked(tbl, id, upd, order) ==
    LET update_fields == {f \in Fields : upd[f] # None}
        r == UpdateCollectionRows(tbl, id, upd, order)
    IN  IF update_fields = {} THEN Reply(500, <<"You have an error in your SQL syntax">>, tbl)
        ELSE IF r.raised THEN Reply(ConstraintStatus(r.msg), <<r.msg>>, r.tbl)
        ELSE IF r.ret = 0 THEN Reply(404, <<"Collection not found">>, r.tbl)
        ELSE Reply(200, <<"Collection updated successfully">>, r.tbl)

update_collection(tbl, id, upd, order) ==
    LET update_fields == {f \in Fields : upd[f] # None}
    IN  IF update_fields = {}
        THEN Reply(400, <<"No fields to update">>, tbl)
        ELSE
            LET r == UpdateCollectionRows(tbl, id, upd, order)
            IN  IF r.raised THEN Reply(ConstraintStatus(r.msg), <<r.msg>>, r.tbl)
                ELSE IF r.ret = 0 THEN Reply(404, <<"Collection not found">>, r.tbl)
                ELSE Reply(200, <<"Collection updated successfully">>, r.tbl)

soft_delete_collection(tbl, id) ==
    LET r == SoftDeleteRows(tbl, id)
    IN  IF r.ret = 0 THEN Reply(404, <<"Collection not found">>, r.tbl)
        ELSE Reply(200, <<"Collection deleted successfully">>, r.tbl)

\* SELECT * FROM collection WHERE id = %s AND is_deleted = 0, then
\* CollectionResponse(**collection)
get_collection(tbl, id) ==
    LET found == {r \in Rows(tbl) : r.id = id /\ ~r.is_deleted}
    IN  IF found = {} THEN Reply(404, <<"Collection not found">>, tbl)
        ELSE LET r == CHOOSE x \in found : TRUE
             IN  IF CollectionBase(r) THEN Reply(200, <<r>>, tbl)
                 ELSE Reply(500, <<"validation error">>, tbl)

(***************************************************************************)
(* get_companies.                                                          *)
(***************************************************************************)
\* the rows of SELECT id, name FROM companies ORDER BY name
CompanyRows == <<[id |-> 1, name |-> "ACME"], [id |-> 2, name |-> "Globex"]>>

\* the fields CompanyResponse declares, both required
CompanyResponse == {"id", "company_name"}

\* CompanyResponse(**company) for every row: a keyword that is no field is
\* ignored, a required field without keyword raises ValidationError
get_companies(rows) ==
    IF \E i \in 1..Len(rows) : ~(CompanyResponse \subseteq DOMAIN rows[i])
    THEN [status |-> 500, body |-> <<"validation error for CompanyResponse: company_name field required">>]
    ELSE [status |-> 200, body |-> rows]

(***************************************************************************)
(* list_collections: filter, count, order, paginate.                       *)
(***************************************************************************)
\* Python truthiness of an optional int / an optional str / an optional date
TruthyInt(o) == o # None /\ Val(o) # 0

TruthyStr(o) == o # None /\ Val(o) # ""

TruthyDate(o) == o # None

\* Query(1, ge=1) and Query(20, ge=1, le=100): the value used when omitted
DefaultPage == 1

DefaultLimit == 20

OrDefault(o, d) == IF o = None THEN d ELSE Val(o)

\* Matches without its first predicate, is_deleted = 0
MatchesAnyRow(r, q, from_date, to_date) ==
    /\ TruthyInt(q.company_id) => r.company_id = Val(q.company_id)
    /\ TruthyStr(q.status) => r.status = Val(q.status)
    /\ TruthyStr(q.service) => r.service = Val(q.service)
    /\ TruthyStr(q.branch) => r.branch = Val(q.branch)
    /\ TruthyDate(from_date) => r.invoice_date >= Val(from_date)
    /\ TruthyDate(to_date) => r.invoice_date <= Val(to_date)

\* the WHERE clause: is_deleted = 0 and one predicate per truthy parameter
Matches(r, q, from_date, to_date) ==
    /\ ~r.is_deleted
    /\ TruthyInt(q.company_id) => r.company_id = Val(q.company_id)
    /\ TruthyStr(q.status) => r.status = Val(q.status)
    /\ TruthyStr(q.service) => r.service = Val(q.service)
    /\ TruthyStr(q.branch) => r.branch = Val(q.branch)
    /\ TruthyDate(from_date) => r.invoice_date >= Val(from_date)
    /\ TruthyDate(to_date) => r.invoice_date <= Val(to_date)

\* ORDER BY invoice_date DESC, id DESC
Before(a, b) ==
    \/ a.invoice_date > b.invoice_date
    \/ (a.invoice_date = b.invoice_date /\ a.id > b.id)

RECURSIVE OrderRows(_)
OrderRows(S) ==
    IF S = {} THEN <<>>
    ELSE LET first == CHOOSE a \in S : \A b \in S \ {a} : Before(a, b)
         IN  <<first>> \o OrderRows(S \ {first})

\* LIMIT %s OFFSET %s
LimitOffset(rows, limit, offset) ==
    SubSeq(rows, offset + 1,
           IF offset + limit < Len(rows) THEN offset + limit ELSE Len(rows))

\* total // limit, the quotient rounded down
FloorDiv(total, limit) == total \div limit

\* math.ceil(total / limit)
Ceil(total, limit) == (total + limit - 1) \div limit

\* The handler body; countTbl is the table the COUNT statement reads and
\* dataTbl the table the SELECT statement reads (two connections).
ListCollections(countTbl, dataTbl, q, today) ==
    LET page == OrDefault(q.page, DefaultPage)
        limit == OrDefault(q.limit, DefaultLimit)
        offset == (page - 1) * limit
        pd == IF TruthyStr(q.period) THEN get_period_dates(Val(q.period), today)
              ELSE [ok |-> TRUE, from |-> 0, to |-> 0]
        from_date == IF TruthyStr(q.period) THEN Some(pd.from) ELSE q.from_date
        to_date == IF TruthyStr(q.period) THEN Some(pd.to) ELSE q.to_date
        total == Cardinality({r \in Rows(countTbl) : Matches(r, q, from_date, to_date)})
        collections ==
            LimitOffset(OrderRows({r \in Rows(dataTbl) : Matches(r, q, from_date, to_date)}),
                        limit, offset)
    IN  IF ~pd.ok
        \* the HTTPException(400) of get_period_dates is raised inside the
        \* handler's try and caught by its "except Exception"
        THEN Reply(500, <<"400: Invalid period">>, dataTbl)
        ELSE IF \E i \in 1..Len(collections) : ~CollectionBase(collections[i])
        THEN Reply(500, <<"validation error">>, dataTbl)
        ELSE Reply(200,
                   [data |-> collections, page |-> page, limit |-> limit,
                    total |-> total,
                    total_pages |-> IF total > 0 THEN Ceil(total, limit) ELSE 0],
                   dataTbl)

list_collections(tbl, q, today) == ListCollections(tbl, tbl, q, today)

(***************************************************************************)
(* bulk_upload_collections.  An uploaded file is its name's extension,     *)
(* whether pandas can read it, its header and its data rows; a cell is     *)
(* None when blank (pandas NaN).                                           *)
(***************************************************************************)
\* required_cols, in the order the handler lists them
required_cols ==
    <<"invoice_number", "company_id", "customer_name", "user_id", "service",
      "invoice_date", "due_date", "amount", "branch">>

OptionalCols == {"amount_paid", "status", "last_partial_payment_date"}

Range(seq) == {seq[i] : i \in 1..Len(seq)}

RECURSIVE SelectCols(_, _)
SelectCols(seq, keep) ==
    IF seq = <<>> THEN <<>>
    ELSE (IF Head(seq) \in keep THEN <<Head(seq)>> ELSE <<>>) \o SelectCols(Tail(seq), keep)

\* MissingCols with the test inverted: the required columns the header has
PresentCols(columns) == SelectCols(required_cols, columns)

\* [col for col in required_cols if col not in df.columns]
MissingCols(columns) == SelectCols(required_cols, Range(required_cols) \ columns)

\* pd.to_datetime(text).date(): the dates the uploaded texts denote
DateTexts == {"2024-02-28", "2024-03-05"}

to_datetime(text) ==
    IF text = "2024-02-28" THEN ToOrd(2024, 2, 28) ELSE ToOrd(2024, 3, 5)

\* row.get(col, default): the cell when the column is in the header
RowGet(columns, row, col, default) == IF col \in columns THEN row[col] ELSE default

\* Lines 430-465: the parameters of the INSERT for one data row, or
\* ok |-> FALSE with the message of the exception the conversion raises
\* (an unparseable date, int() of a blank, a NaN parameter the driver
\* refuses to escape).
RowParams(columns, row) ==
    LET amount_paid == RowGet(columns, row, "amount_paid", Some(0))
        status == RowGet(columns, row, "status", Some("pending"))
        lppd == RowGet(columns, row, "last_partial_payment_date", None)
        badDate(c) == c = None \/ Val(c) \notin DateTexts
    IN  IF badDate(row.invoice_date) \/ badDate(row.due_date) \/ (lppd # None /\ badDate(lppd))
        THEN [ok |-> FALSE, msg |-> "Unknown datetime string format", v |-> <<>>]
        ELSE IF row.company_id = None \/ row.user_id = None
        THEN [ok |-> FALSE, msg |-> "cannot convert float NaN to integer", v |-> <<>>]
        ELSE IF \/ row.invoice_number = None \/ row.customer_name = None
                \/ row.service = None \/ row.amount = None \/ row.branch = None
                \/ amount_paid = None \/ status = None
        THEN [ok |-> FALSE, msg |-> "nan can not be used with MySQL", v |-> <<>>]
        ELSE [ok |-> TRUE, msg |-> "",
              v |-> [invoice_number |-> Val(row.invoice_number),
                     company_id |-> Val(row.company_id),
                     customer_name |-> Val(row.customer_name),
                     user_id |-> Val(row.user_id),
                     service |-> Val(row.service),
                     invoice_date |-> to_datetime(Val(row.invoice_date)),
                     due_date |-> to_datetime(Val(row.due_date)),
                     amount |-> Val(row.amount),
                     amount_paid |-> Val(amount_paid),
                     status |-> Val(status),
                     last_partial_payment_date |->
                         IF lppd = None THEN None ELSE Some(to_datetime(Val(lppd))),
                     branch |-> Val(row.branch)]]

\* BulkRow reporting idx + 1 as the row number
BulkRowOffByOne(st, columns, row, idx, order) ==
    LET p == RowParams(columns, row)
        r == InsertCollection(st.tbl, p.v, order)
    IN  IF ~p.ok
        THEN [st EXCEPT !.errors = Append(@, [row |-> idx + 1, error |-> p.msg])]
        ELSE IF r.raised
        THEN [st EXCEPT !.errors = Append(@, [row |-> idx + 1, error |-> r.msg])]
        ELSE [st EXCEPT !.tbl = r.tbl, !.inserted = @ + 1]

\* One iteration of "for idx, row in df.iterrows()": the loop state after
\* the row at 0-based index idx.
BulkRow(st, columns, row, idx, order) ==
    LET p == RowParams(columns, row)
        r == InsertCollection(st.tbl, p.v, order)
    IN  IF ~p.ok
        THEN [st EXCEPT !.errors = Append(@, [row |-> idx + 2, error |-> p.msg])]
        ELSE IF r.raised
        THEN [st EXCEPT !.errors = Append(@, [row |-> idx + 2, error |-> r.msg])]
        ELSE [st EXCEPT !.tbl = r.tbl, !.inserted = @ + 1]

\* BulkLoop leaving the loop at the first row that fails
RECURSIVE BulkLoopAbort(_, _, _, _, _)
BulkLoopAbort(st, columns, rows, idx, order) ==
    IF idx >= Len(rows) \/ st.errors # <<>> THEN st
    ELSE BulkLoopAbort(BulkRow(st, columns, rows[idx + 1], idx, order),
                       columns, rows, idx + 1, order)

RECURSIVE BulkLoop(_, _, _, _, _)
BulkLoop(st, columns, rows, idx, order) ==
    IF idx >= Len(rows) THEN st
    ELSE BulkLoop(BulkRow(st, columns, rows[idx + 1], idx, order),
                  columns, rows, idx + 1, order)

bulk_upload_collections(tbl, file, order) ==
    IF file.ext \notin {".csv", ".xlsx", ".xls"}
    THEN Reply(400, <<"Invalid file format. Use CSV or Excel (.xlsx, .xls)">>, tbl)
    ELSE IF ~file.readable
    THEN Reply(500, <<"parser error">>, tbl)
    ELSE IF MissingCols(file.columns) # <<>>
    THEN Reply(400, <<"Missing required columns", MissingCols(file.columns)>>, tbl)
    ELSE
        LET st == BulkLoop([tbl |-> tbl, inserted |-> 0, errors |-> <<>>],
                           file.columns, file.rows, 0, order)
        IN  Reply(200,
                  [success |-> st.inserted > 0,
                   total_rows |-> Len(file.rows),
                   inserted |-> st.inserted,
                   failed |-> Len(st.errors),
                   errors |-> st.errors],
                  st.tbl)

(***************************************************************************)
(* Tires catalog (main.py, models.py).                                     *)
(***************************************************************************)
\* The fields TireBase declares.  "_load" has a leading underscore, so it
\* is not a field of the model, and no field is named load_value.
TireFields ==
    {"brand", "model", "size", "layer_index", "layers", "max_pressure",
     "min_pressure", "max_depth", "min_depth", "wear_type", "profitability",
     "performance", "temperature", "speed", "speed_number", "braking",
     "load_type", "road_type", "terrain_type", "position"}

\* The attributes create_tire and update_tire read to build params.
TireParamAttrs ==
    <<"brand", "model", "size", "layer_index", "layers", "max_pressure",
      "min_pressure", "max_depth", "min_depth", "wear_type", "profitability",
      "performance", "temperature", "speed", "speed_number", "braking",
      "load_type", "load_value", "road_type", "terrain_type", "position">>

\* building params raises AttributeError when an attribute is not a field
ParamsRaise(attrs) == \E i \in 1..Len(attrs) : attrs[i] \notin TireFields

TireKey(t) == <<t.brand, t.model, t.size, t.position>>

\* unique key of the catalog: brand, model, size and position (rows whose
\* position is NULL never collide)
TireDuplicate(rows, tire, selfId) ==
    \E r \in rows :
        /\ r.id # selfId
        /\ tire.position # None
        /\ TireKey(r) = TireKey(tire)

TireRow(id, tire) ==
    [id |-> id, brand |-> tire.brand, model |-> tire.model, size |-> tire.size,
     position |-> tire.position]

TReply(status, body, tbl) == [status |-> status, body |-> body, tbl |-> tbl]

create_tire(tbl, tire) ==
    IF ParamsRaise(TireParamAttrs)
    THEN TReply(500, <<"'TireCreate' object has no attribute 'load_value'">>, tbl)
    ELSE IF TireDuplicate(tbl.rows, tire, 0)
    THEN TReply(409, <<"A tire with this brand, model, size, and position already exists">>, tbl)
    ELSE TReply(201, <<execute(tbl.lastId + 1, 1)>>,
                [rows |-> tbl.rows \cup {TireRow(tbl.lastId + 1, tire)},
                 lastId |-> tbl.lastId + 1])

update_tire(tbl, id, tire) ==
    IF ParamsRaise(TireParamAttrs)
    THEN TReply(500, <<"'TireUpdate' object has no attribute 'load_value'">>, tbl)
    ELSE IF ~\E r \in tbl.rows : r.id = id
    THEN TReply(404, <<"Tire not found">>, tbl)
    ELSE IF TireDuplicate(tbl.rows, tire, id)
    THEN TReply(409, <<"A tire with this brand, model, size, and position already exists">>, tbl)
    ELSE TReply(200, <<"Tire updated successfully">>,
                [tbl EXCEPT !.rows = {r \in tbl.rows : r.id # id} \cup {TireRow(id, tire)}])

delete_tire(tbl, id) ==
    LET rowcount == Cardinality({r \in tbl.rows : r.id = id})
    IN  IF execute(0, rowcount) = 0
        THEN TReply(404, <<"Tire not found">>, tbl)
        ELSE TReply(200, <<"Tire deleted successfully">>,
                    [tbl EXCEPT !.rows = {r \in tbl.rows : r.id # id}])

get_tire(tbl, id) ==
    LET found == {r \in tbl.rows : r.id = id}
    IN  IF found = {} THEN TReply(404, <<"Tire not found">>, tbl)
        ELSE TReply(200, <<CHOOSE r \in found : TRUE>>, tbl)

(***************************************************************************)
(* list_tires: filter, count, order, paginate.  A text column is compared  *)
(* character by character; Chars gives the characters of the texts the     *)
(* catalog and the requests use.                                           *)
(***************************************************************************)
Chars(text) ==
    CASE text = "Michelin" -> <<"M", "i", "c", "h", "e", "l", "i", "n">>
      [] text = "Pirelli" -> <<"P", "i", "r", "e", "l", "l", "i">>
      [] text = "Nokian" -> <<"N", "o", "k", "i", "a", "n">>
      [] text = "XZE" -> <<"X", "Z", "E">>
      [] text = "11R22.5" -> <<"1", "1", "R", "2", "2", ".", "5">>
      [] text = "front" -> <<"f", "r", "o", "n", "t">>
      [] text = "eli" -> <<"e", "l", "i">>
      [] text = "R22" -> <<"R", "2", "2">>
      [] text = "" -> <<>>

\* column LIKE '%term%'
Like(column, term) ==
    LET text == Chars(Val(column))
        part == Chars(term)
    IN  /\ column # None
        /\ \E i \in 0..(Len(text) - Len(part)) :
               SubSeq(text, i + 1, i + Len(part)) = part

\* the WHERE clause of list_tires: one predicate per truthy parameter, none
\* at all when no parameter is truthy
TireMatches(r, q) ==
    /\ TruthyStr(q.search) =>
           \/ Like(r.brand, Val(q.search))
           \/ Like(r.model, Val(q.search))
           \/ Like(r.size, Val(q.search))
    /\ TruthyStr(q.brand) => r.brand = q.brand
    /\ TruthyStr(q.model) => r.model = q.model
    /\ TruthyStr(q.size) => r.size = q.size
    /\ TruthyStr(q.position) => r.position = q.position

\* ORDER BY id DESC
RECURSIVE OrderTires(_)
OrderTires(S) ==
    IF S = {} THEN <<>>
    ELSE LET first == CHOOSE a \in S : \A b \in S \ {a} : a.id > b.id
         IN  <<first>> \o OrderTires(S \ {first})

\* The handler body; countRows are the rows the COUNT statement reads and
\* dataRows the rows the SELECT statement reads (two connections).
ListTires(countRows, dataRows, q) ==
    LET page == OrDefault(q.page, DefaultPage)
        limit == OrDefault(q.limit, DefaultLimit)
        offset == (page - 1) * limit
        total == Cardinality({r \in countRows : TireMatches(r, q)})
        found == LimitOffset(OrderTires({r \in dataRows : TireMatches(r, q)}),
                             limit, offset)
    IN  [status |-> 200,
         body |-> [data |-> found, page |-> page, limit |-> limit,
                   total |-> total, total_pages |-> Ceil(total, limit)]]

list_tires(tbl, q) == ListTires(tbl.rows, tbl.rows, q)


(***************************************************************************)
(* Requests.                                                               *)
(***************************************************************************)
D1 == ToOrd(2024, 2, 28)

D2 == ToOrd(2024, 3, 5)

\* the value of datetime.now().date() during a request (a Wednesday)
Todays == {ToOrd(2024, 3, 6)}

\* the orders in which the engine may check the constraints of one row
Orders == {"unique", "foreign"}

Payload(inv, company, date) ==
    [invoice_number |-> inv, company_id |-> company, customer_name |-> "ACME",
     user_id |-> 1, service |-> "app", invoice_date |-> date, due_date |-> D2,
     amount |-> 100, amount_paid |-> 0, status |-> "pending",
     last_partial_payment_date |-> None, branch |-> "Q1"]

\* valid create payloads (the framework rejects the others with 422);
\* company 3 does not exist
CreatePayloads ==
    {Payload("INV-1", 1, D1), Payload("INV-2", 2, D2), Payload("INV-1", 2, D2),
     Payload("INV-2", 3, D1), Payload("INV-1", 3, D1)}

\* the payloads of the requests that race
ConcurrentPayloads ==
    {Payload("INV-1", 1, D1), Payload("INV-1", 2, D2), Payload("INV-2", 2, D2),
     Payload("INV-2", 3, D2)}

\* the ids requests address: the rows there can be, and one beyond them
Ids == 1..3

OneField(f, v) == [NoUpdate EXCEPT ![f] = Some(v)]

\* update payloads: none, one or two supplied fields
Updates ==
    {NoUpdate,
     OneField("invoice_number", "INV-1"), OneField("invoice_number", "INV-2"),
     OneField("company_id", 2), OneField("company_id", 3),
     OneField("invoice_date", D2), OneField("status", "pending"),
     [NoUpdate EXCEPT !["company_id"] = Some(1), !["invoice_date"] = Some(D1)]}

NoQuery ==
    [page |-> None, limit |-> None, company_id |-> None, status |-> None,
     service |-> None, branch |-> None, period |-> None, from_date |-> None,
     to_date |-> None]

QueryFields == DOMAIN NoQuery

\* the values a list request may carry for each parameter
QueryValues(f) ==
    IF f = "page" THEN {2}
    ELSE IF f = "limit" THEN {1}
    ELSE IF f = "company_id" THEN {0, 1}
    ELSE IF f = "status" THEN {"", "pending"}
    ELSE IF f = "service" THEN {"tires"}
    ELSE IF f = "branch" THEN {"Q1"}
    ELSE IF f = "period" THEN {"", "last_week", "last_quarter"}
    ELSE IF f = "from_date" THEN {D2}
    ELSE {D1}

With(q, f, v) == [q EXCEPT ![f] = Some(v)]

\* list requests: no parameter, one parameter, and some pairs
ListRequests ==
    {NoQuery}
    \cup UNION {{With(NoQuery, f, v) : v \in QueryValues(f)} : f \in QueryFields}
    \cup {With(With(NoQuery, "page", 2), "limit", 1),
          With(With(NoQuery, "company_id", 1), "limit", 1),
          With(With(NoQuery, "company_id", 1), "to_date", D1),
          With(With(NoQuery, "period", "last_week"), "from_date", D2),
          With(With(NoQuery, "period", "last_quarter"), "limit", 1)}

\* the page and limit parameters of the requests that page through a list
Pages == {None} \cup {Some(p) : p \in 1..MaxPage}

Limits == {None, Some(1), Some(2)}

\* list requests that page through the unfiltered and two filtered lists
PageRequests ==
    {[NoQuery EXCEPT !.page = p, !.limit = l, !.company_id = f[1], !.to_date = f[2]] :
        p \in Pages, l \in Limits,
        f \in {<<None, None>>, <<Some(1), None>>, <<None, Some(D1)>>}}

\* three records, so that a list has a second page of limit 1 and of limit 2
PagePayloads ==
    {Payload("INV-1", 1, D1), Payload("INV-2", 2, D2), Payload("INV-3", 1, D2)}

NoTireQuery ==
    [page |-> None, limit |-> None, search |-> None, brand |-> None,
     model |-> None, size |-> None, position |-> None]

\* list_tires requests: unfiltered, by brand (one that is in the catalog and
\* one that is not), by search term
TireRequests ==
    {[NoTireQuery EXCEPT !.page = p, !.limit = l, !.brand = f[1], !.search = f[2]] :
        p \in Pages, l \in Limits,
        f \in {<<None, None>>, <<Some("Michelin"), None>>, <<Some("Nokian"), None>>,
               <<None, Some("eli")>>}}

AllCols == Range(required_cols) \cup OptionalCols

BulkCells(inv, company, dateText, paid, status) ==
    [invoice_number |-> Some(inv), company_id |-> Some(company),
     customer_name |-> Some("ACME"), user_id |-> Some(1), service |-> Some("app"),
     invoice_date |-> Some(dateText), due_date |-> Some("2024-03-05"),
     amount |-> Some(100), branch |-> Some("Q1"), amount_paid |-> paid,
     status |-> status, last_partial_payment_date |-> None]

\* data rows: a complete one, one with an unparseable invoice date, one
\* whose amount_paid and status cells are blank
CompleteRow == BulkCells("INV-1", 1, "2024-02-28", Some(0), Some("pending"))

BadDateRow == BulkCells("INV-3", 2, "31-31-2024", Some(0), Some("pending"))

BlankRow == BulkCells("INV-2", 2, "2024-03-05", None, None)

BulkRows == {CompleteRow, BadDateRow, BlankRow}

\* rows the create schema does not accept: a negative amount, a company_id
\* of 0
NegativeAmountRow ==
    [BulkCells("INV-2", 2, "2024-03-05", Some(0), Some("pending")) EXCEPT
        !.amount = Some(0 - 5)]

ZeroCompanyRow == BulkCells("INV-2", 0, "2024-03-05", Some(0), Some("pending"))

RequiredOnly == Range(required_cols)

WithOptional == Range(required_cols) \cup {"amount_paid", "status"}

SeqsUpTo(S, n) == UNION {[1..k -> S] : k \in 0..n}

File(ext, readable, columns, rows) ==
    [ext |-> ext, readable |-> readable, columns |-> columns, rows |-> rows]

\* files that fail before the loop: a required column missing, an
\* extension the handler does not accept, a content pandas cannot read
RejectedFiles ==
    {File(ext, TRUE, cols, <<CompleteRow>>) :
        ext \in {".csv", ".xlsx"},
        cols \in {RequiredOnly \ {"amount"}, AllCols \ {"invoice_number", "branch"}}}
    \cup {File(ext, TRUE, AllCols, <<CompleteRow>>) : ext \in {".txt", ".CSV"}}
    \cup {File(".csv", FALSE, {}, <<>>), File(".pdf", FALSE, {}, <<>>)}

Files ==
    {File(".csv", TRUE, cols, rows) :
        cols \in {RequiredOnly, WithOptional}, rows \in SeqsUpTo(BulkRows, MaxBulkRows)}
    \cup {File(".xls", TRUE, AllCols, <<CompleteRow>>)}
    \cup RejectedFiles

\* the uploads that interleave with the other endpoints
FewFiles ==
    {File(".csv", TRUE, RequiredOnly, <<CompleteRow, BadDateRow>>),
     File(".csv", TRUE, RequiredOnly, <<BlankRow>>),
     File(".xlsx", TRUE, WithOptional, <<BlankRow, CompleteRow>>),
     File(".txt", TRUE, AllCols, <<CompleteRow>>),
     File(".csv", TRUE, RequiredOnly \ {"amount"}, <<CompleteRow>>)}

\* uploads with rows the create schema accepts and rows it does not
SchemaFiles ==
    {File(".csv", TRUE, cols, rows) :
        cols \in {RequiredOnly, WithOptional},
        rows \in {<<CompleteRow>>, <<NegativeAmountRow>>, <<ZeroCompanyRow>>,
                  <<CompleteRow, NegativeAmountRow>>, <<ZeroCompanyRow, CompleteRow>>}}

\* the list requests that run while other requests write
RaceRequests == {NoQuery, With(NoQuery, "limit", 1), With(NoQuery, "company_id", 1)}

\* the records created while a list request runs
RacePayloads == {Payload("INV-1", 1, D1), Payload("INV-2", 2, D2)}

TirePayload(brand, position) ==
    [f \in TireFields |->
        IF f = "brand" THEN Some(brand)
        ELSE IF f = "model" THEN Some("XZE")
        ELSE IF f = "size" THEN Some("11R22.5")
        ELSE IF f = "position" THEN position
        ELSE None]

TirePayloads ==
    {TirePayload(b, p) : b \in {"Michelin", "Pirelli"}, p \in {None, Some("front")}}

\* the catalog as seeded before the service starts
SeedTires ==
    [rows |-> {TireRow(1, TirePayload("Michelin", Some("front"))),
               TireRow(2, TirePayload("Michelin", None)),
               TireRow(3, TirePayload("Pirelli", Some("front")))},
     lastId |-> 3]

TireIds == 1..4

Clients == 1..NumClients

(***************************************************************************)
(* State machine.  resp is the response to the latest request: the         *)
(* endpoint, the HTTP status, the request and the body.                    *)
(***************************************************************************)
Response(op, status, req, body) ==
    [op |-> op, status |-> status, req |-> req, body |-> body]

NoResult == [status |-> 0, payload |-> <<>>, body |-> <<>>, raced |-> FALSE]

\* calls[c] when client c has made no data-access call or list request yet
Idle == [pc |-> "idle", call |-> <<>>, connection |-> None, outcome |-> <<>>]

Init ==
    /\ collection = <<>>
    /\ tires = SeedTires
    /\ resp = Response("none", 0, <<>>, <<>>)
    /\ pending = [c \in Clients |-> None]
    /\ done = [c \in Clients |-> NoResult]
    /\ calls = [c \in Clients |-> Idle]
    /\ connections = {}

Create(payloads) ==
    \E payload \in payloads, order \in Orders :
        LET r == create_collection(collection, payload, order)
        IN  /\ collection' = r.tbl
            /\ resp' = Response("create_collection", r.status, payload, r.body)
            /\ UNCHANGED <<tires, pending, done, calls, connections>>

CreateCollection == Create(CreatePayloads)

GetCollection ==
    \E id \in Ids :
        LET r == get_collection(collection, id)
        IN  /\ collection' = r.tbl
            /\ resp' = Response("get_collection", r.status, id, r.body)
            /\ UNCHANGED <<tires, pending, done, calls, connections>>

UpdateCollection ==
    \E id \in Ids, upd \in Updates, order \in Orders :
        LET r == update_collection(collection, id, upd, order)
        IN  /\ collection' = r.tbl
            /\ resp' = Response("update_collection", r.status, [id |-> id, upd |-> upd], r.body)
            /\ UNCHANGED <<tires, pending, done, calls, connections>>

SoftDeleteCollection ==
    \E id \in Ids :
        LET r == soft_delete_collection(collection, id)
        IN  /\ collection' = r.tbl
            /\ resp' = Response("soft_delete_collection", r.status, id, r.body)
            /\ UNCHANGED <<tires, pending, done, calls, connections>>

List(requests) ==
    \E q \in requests, today \in Todays :
        LET r == list_collections(collection, q, today)
        IN  /\ collection' = r.tbl
            /\ resp' = Response("list_collections", r.status, q, r.body)
            /\ UNCHANGED <<tires, pending, done, calls, connections>>

ListCollectionsCall == List(ListRequests)

BulkUpload(files) ==
    \E file \in files, order \in Orders :
        LET r == bulk_upload_collections(collection, file, order)
        IN  /\ collection' = r.tbl
            /\ resp' = Response("bulk_upload_collections", r.status, file, r.body)
            /\ UNCHANGED <<tires, pending, done, calls, connections>>

BulkUploadFew == BulkUpload(FewFiles)

BulkUploadAny == BulkUpload(Files)

\* the collection service
Next ==
    \/ CreateCollection
    \/ GetCollection
    \/ UpdateCollection
    \/ SoftDeleteCollection
    \/ ListCollectionsCall
    \/ BulkUploadFew

Spec == Init /\ [][Next]_vars

\* the bulk importer, with soft deletes between uploads
NextBulk ==
    \/ BulkUploadAny
    \/ SoftDeleteCollection

SpecBulk == Init /\ [][NextBulk]_vars

(***************************************************************************)
(* Concurrent create requests.  A request is received (its payload is      *)
(* validated and the handler starts), and later its single INSERT runs on  *)
(* a connection of its own; the statements of different requests           *)
(* interleave in any order.  done[c] is the response to the request client *)
(* c made last, once it is answered.                                       *)
(***************************************************************************)
ReceiveCreate(c) ==
    \E payload \in ConcurrentPayloads :
        /\ pending[c] = None
        /\ pending' = [pending EXCEPT ![c] = Some(payload)]
        /\ done' = [done EXCEPT ![c] = NoResult]
        /\ UNCHANGED <<collection, tires, resp, calls, connections>>

ExecuteCreate(c) ==
    \E order \in Orders :
        /\ pending[c] # None
        /\ LET r == create_collection(collection, Val(pending[c]), order)
           IN  /\ collection' = r.tbl
               /\ done' = [done EXCEPT ![c] =
                              [status |-> r.status,
                               payload |-> Val(pending[c]),
                               body |-> r.body,
                               \* another request for the same invoice number
                               \* was in flight when this INSERT ran
                               raced |-> \E d \in Clients \ {c} :
                                   /\ pending[d] # None
                                   /\ Val(pending[d]).invoice_number =
                                          Val(pending[c]).invoice_number]]
        /\ pending' = [pending EXCEPT ![c] = None]
        /\ UNCHANGED <<tires, resp, calls, connections>>

NextConc ==
    \/ \E c \in Clients : ReceiveCreate(c)
    \/ \E c \in Clients : ExecuteCreate(c)
    \/ SoftDeleteCollection

SpecConc == Init /\ [][NextConc]_vars

(***************************************************************************)
(* The tires service.                                                      *)
(***************************************************************************)
CreateTire ==
    \E tire \in TirePayloads :
        LET r == create_tire(tires, tire)
        IN  /\ tires' = r.tbl
            /\ resp' = Response("create_tire", r.status, tire, r.body)
            /\ UNCHANGED <<collection, pending, done, calls, connections>>

UpdateTire ==
    \E id \in TireIds, tire \in TirePayloads :
        LET r == update_tire(tires, id, tire)
        IN  /\ tires' = r.tbl
            /\ resp' = Response("update_tire", r.status, [id |-> id, tire |-> tire], r.body)
            /\ UNCHANGED <<collection, pending, done, calls, connections>>

DeleteTire ==
    \E id \in TireIds :
        LET r == delete_tire(tires, id)
        IN  /\ tires' = r.tbl
            /\ resp' = Response("delete_tire", r.status, id, r.body)
            /\ UNCHANGED <<collection, pending, done, calls, connections>>

GetTire ==
    \E id \in TireIds :
        LET r == get_tire(tires, id)
        IN  /\ tires' = r.tbl
            /\ resp' = Response("get_tire", r.status, id, r.body)
            /\ UNCHANGED <<collection, pending, done, calls, connections>>

NextTires ==
    \/ CreateTire
    \/ UpdateTire
    \/ DeleteTire
    \/ GetTire

SpecTires == Init /\ [][NextTires]_vars

(***************************************************************************)
(* The list endpoints of both services and the companies selector, over    *)
(* tables of up to three records.                                          *)
(***************************************************************************)
CreatePage == Create(PagePayloads)

ListPage == List(PageRequests)

ListTiresCall ==
    \E q \in TireRequests :
        LET r == list_tires(tires, q)
        IN  /\ resp' = Response("list_tires", r.status, q, r.body)
            /\ UNCHANGED <<collection, tires, pending, done, calls, connections>>

GetCompanies ==
    LET r == get_companies(CompanyRows)
    IN  /\ resp' = Response("get_companies", r.status, <<>>, r.body)
        /\ UNCHANGED <<collection, tires, pending, done, calls, connections>>

NextList ==
    \/ CreatePage
    \/ SoftDeleteCollection
    \/ ListPage
    \/ ListTiresCall
    \/ GetCompanies

SpecList == Init /\ [][NextList]_vars

(***************************************************************************)
(* The period resolver on its own: a token and a value of                  *)
(* datetime.now().date(), then the call.                                   *)
(***************************************************************************)
\* every day of 2024 and 2025
PeriodDays == ToOrd(2024, 1, 1)..ToOrd(2025, 12, 31)

InitPeriod ==
    /\ collection = <<>>
    /\ tires = SeedTires
    /\ resp \in {Response("request", 0, [period |-> p, today |-> d], <<>>) :
                    p \in Periods \cup {"last_quarter"}, d \in PeriodDays}
    /\ pending = [c \in Clients |-> None]
    /\ done = [c \in Clients |-> NoResult]
    /\ calls = [c \in Clients |-> Idle]
    /\ connections = {}

ResolvePeriod ==
    /\ resp.op = "request"
    /\ LET r == get_period_dates(resp.req.period, resp.req.today)
       IN  resp' = Response("get_period_dates", IF r.ok THEN 200 ELSE 400, resp.req, r)
    /\ UNCHANGED <<collection, tires, pending, done, calls, connections>>

NextPeriod == ResolvePeriod

SpecPeriod == InitPeriod /\ [][NextPeriod]_vars

(***************************************************************************)
(* The data-access calls step by step (database.py).  A call of query,     *)
(* query_one or execute enters get_connection, connects, opens a cursor,   *)
(* runs its statement and leaves through the finally block of              *)
(* get_connection; the steps of different clients interleave.              *)
(* connections is the set of open connections, each named by the client    *)
(* whose call opened it; calls[c] is client c's call: its position (after  *)
(* the call, whether it returned or raised), its connection and its        *)
(* outcome.                                                                *)
(***************************************************************************)
Return(value) == [raised |-> FALSE, value |-> value]

Raise(msg) == [raised |-> TRUE, value |-> msg]

ConnectError == "Can't connect to MySQL server"

\* the calls the handlers make: the function and its statement
DbCalls ==
    {[fn |-> "execute", sql |-> "insert", arg |-> Payload("INV-1", 1, D1)],
     [fn |-> "execute", sql |-> "soft_delete", arg |-> 1],
     [fn |-> "query_one", sql |-> "select_one", arg |-> 1],
     [fn |-> "query", sql |-> "select_live", arg |-> <<>>]}

\* cursor.execute(sql, params) and the value the function returns after it:
\* fetchall() for query, fetchone() for query_one, lastrowid or rowcount for
\* execute
Statement(tbl, call, order) ==
    IF call.sql = "insert" THEN
        LET r == InsertCollection(tbl, call.arg, order)
        IN  [tbl |-> r.tbl, outcome |-> IF r.raised THEN Raise(r.msg) ELSE Return(r.ret)]
    ELSE IF call.sql = "soft_delete" THEN
        LET r == SoftDeleteRows(tbl, call.arg)
        IN  [tbl |-> r.tbl, outcome |-> Return(r.ret)]
    ELSE IF call.sql = "select_one" THEN
        LET found == {r \in Rows(tbl) : r.id = call.arg /\ ~r.is_deleted}
        IN  [tbl |-> tbl,
             outcome |-> Return(IF found = {} THEN None ELSE Some(CHOOSE r \in found : TRUE))]
    ELSE [tbl |-> tbl, outcome |-> Return({r \in Rows(tbl) : ~r.is_deleted})]

\* get_connection closing the connection only after the with-body returned
close_on_return(connection, outcome, conns) ==
    IF connection # None /\ ~outcome.raised THEN conns \ {Val(connection)} ELSE conns

\* the finally block of get_connection: the open connections after it
get_connection_finally(connection, outcome, conns) ==
    IF connection # None THEN conns \ {Val(connection)} ELSE conns

\* a handler calls query, query_one or execute: connection = None
StartCall(c) ==
    \E call \in DbCalls :
        /\ calls[c].pc \in {"idle", "returned", "raised"}
        /\ calls' = [calls EXCEPT ![c] =
                        [pc |-> "connect", call |-> call, connection |-> None,
                         outcome |-> Return(None)]]
        /\ UNCHANGED <<collection, tires, resp, pending, done, connections>>

\* connection = pymysql.connect(**connection_config): succeeds, or raises
Connect(c) ==
    /\ calls[c].pc = "connect"
    /\ \/ /\ calls' = [calls EXCEPT ![c].pc = "cursor", ![c].connection = Some(c)]
          /\ connections' = connections \cup {c}
       \/ /\ calls' = [calls EXCEPT ![c].pc = "finally", ![c].outcome = Raise(ConnectError)]
          /\ UNCHANGED connections
    /\ UNCHANGED <<collection, tires, resp, pending, done>>

\* with conn.cursor() as cursor: succeeds, or raises
OpenCursor(c) ==
    /\ calls[c].pc = "cursor"
    /\ \/ calls' = [calls EXCEPT ![c].pc = "execute"]
       \/ calls' = [calls EXCEPT ![c].pc = "finally",
                                 ![c].outcome = Raise("cursor error")]
    /\ UNCHANGED <<collection, tires, resp, pending, done, connections>>

\* cursor.execute and the return statement: the statement runs, or the
\* server goes away before it does
ExecuteStatement(c) ==
    /\ calls[c].pc = "execute"
    /\ \/ \E order \in Orders :
               LET r == Statement(collection, calls[c].call, order)
               IN  /\ collection' = r.tbl
                   /\ calls' = [calls EXCEPT ![c].pc = "finally", ![c].outcome = r.outcome]
       \/ /\ calls' = [calls EXCEPT ![c].pc = "finally",
                                    ![c].outcome = Raise("Lost connection to MySQL server")]
          /\ UNCHANGED collection
    /\ UNCHANGED <<tires, resp, pending, done, connections>>

\* the finally block, then the call returns or raises to the handler
LeaveCall(c) ==
    /\ calls[c].pc = "finally"
    /\ connections' =
           get_connection_finally(calls[c].connection, calls[c].outcome, connections)
    /\ calls' = [calls EXCEPT ![c].pc =
                     IF calls[c].outcome.raised THEN "raised" ELSE "returned"]
    /\ UNCHANGED <<collection, tires, resp, pending, done>>

NextDb ==
    \/ \E c \in Clients : StartCall(c)
    \/ \E c \in Clients : Connect(c)
    \/ \E c \in Clients : OpenCursor(c)
    \/ \E c \in Clients : ExecuteStatement(c)
    \/ \E c \in Clients : LeaveCall(c)

SpecDb == Init /\ [][NextDb]_vars

(***************************************************************************)
(* Imports next to creates: every way a row gets into the table.           *)
(***************************************************************************)
BulkUploadSchema == BulkUpload(SchemaFiles)

NextImport ==
    \/ BulkUploadSchema
    \/ CreateCollection
    \/ GetCollection

SpecImport == Init /\ [][NextImport]_vars

(***************************************************************************)
(* A list request among writes.  list_collections runs its COUNT           *)
(* statement and its SELECT statement on two connections, without a        *)
(* transaction; creates and soft deletes of other requests run between     *)
(* them.  One list request at a time is followed (client 1's): list        *)
(* requests do not write, so others would not change what it sees.         *)
(* calls[1].outcome is the table as the COUNT statement read it, done[1]   *)
(* the response.                                                           *)
(***************************************************************************)
StartList(c) ==
    \E q \in RaceRequests :
        /\ calls[c].pc \in {"idle", "returned"}
        /\ calls' = [calls EXCEPT ![c] =
                        [pc |-> "count", call |-> q, connection |-> None, outcome |-> <<>>]]
        /\ done' = [done EXCEPT ![c] = NoResult]
        /\ UNCHANGED <<collection, tires, resp, pending, connections>>

\* count_result = db.query_one(count_query, tuple(params))
CountStatement(c) ==
    /\ calls[c].pc = "count"
    /\ calls' = [calls EXCEPT ![c].pc = "select", ![c].outcome = collection]
    /\ UNCHANGED <<collection, tires, resp, pending, done, connections>>

\* collections = db.query(data_query, tuple(params)), and the response
SelectStatement(c) ==
    \E today \in Todays :
        /\ calls[c].pc = "select"
        /\ LET r == ListCollections(calls[c].outcome, collection, calls[c].call, today)
           IN  done' = [done EXCEPT ![c] =
                           [status |-> r.status,
                            payload |-> calls[c].call,
                            body |-> r.body,
                            \* a write ran between the two statements
                            raced |-> calls[c].outcome # collection]]
        /\ calls' = [calls EXCEPT ![c].pc = "returned", ![c].outcome = <<>>]
        /\ UNCHANGED <<collection, tires, resp, pending, connections>>

CreateRace == Create(RacePayloads)

NextRace ==
    \/ StartList(1)
    \/ CountStatement(1)
    \/ SelectStatement(1)
    \/ CreateRace
    \/ SoftDeleteCollection

SpecRace == Init /\ [][NextRace]_vars

(***************************************************************************)
(* Properties.                                                             *)
(***************************************************************************)
Deleted(tbl, id) == \E r \in Rows(tbl) : r.id = id /\ r.is_deleted

Live(tbl, id) == \E r \in Rows(tbl) : r.id = id /\ ~r.is_deleted

\* No record of a successful list response is soft-deleted, and
\* get_collection answers 404 for an id that is soft-deleted (or absent) and
\* the live record otherwise.
SoftDeletedHidden ==
    /\ (resp.op = "list_collections" /\ resp.status = 200) =>
          \A i \in 1..Len(resp.body.data) :
              /\ ~resp.body.data[i].is_deleted
              /\ ~Deleted(collection, resp.body.data[i].id)
    /\ resp.op = "get_collection" =>
          /\ ~Live(collection, resp.req) => resp.status = 404
          /\ resp.status = 200 =>
                /\ resp.body[1] \in Rows(collection)
                /\ resp.body[1].id = resp.req
                /\ ~resp.body[1].is_deleted

\* A delete addressed to a record that is already soft-deleted answers 404
\* and leaves the table as it was.
SecondDeleteNotFound ==
    (resp'.op = "soft_delete_collection" /\ Deleted(collection, resp'.req)) =>
        (resp'.status = 404 /\ collection' = collection)

\* C1: after any sequence of create, update, delete and bulk-upload calls, a
\* soft-deleted record is returned neither by list_collections (whatever the
\* filters and the page) nor by get_collection (404), and soft-deleting an
\* already soft-deleted record answers 404 and changes nothing.
C1_SoftDeletedNeverReturned == [][SoftDeletedHidden' /\ SecondDeleteNotFound]_vars

\* C1 witness: an unfiltered list answered with records while the table
\* holds a soft-deleted row, after a delete was refused.
C1_Witness ==
    /\ resp.op = "list_collections"
    /\ resp.status = 200
    /\ resp.req = NoQuery
    /\ Len(resp.body.data) >= 1
    /\ \E r \in Rows(collection) : r.is_deleted

\* C2: a list request whose period is a non-empty token outside the ten
\* recognised ones is answered with status 400.
C2_InvalidPeriodIs400 ==
    (/\ resp.op = "list_collections"
     /\ TruthyStr(resp.req.period)
     /\ Val(resp.req.period) \notin Periods) => resp.status = 400

\* C3: create_tire on a valid payload answers 201 with the generated id and
\* stores the tire when no tire has the same brand, model, size and
\* position, and answers 409 when one has; it never answers 500.
C3_CreateTireStep ==
    resp'.op = "create_tire" =>
        IF TireDuplicate(tires.rows, resp'.req, 0)
        THEN resp'.status = 409 /\ tires' = tires
        ELSE /\ resp'.status = 201
             /\ resp'.body = <<tires.lastId + 1>>
             /\ tires'.rows = tires.rows \cup {TireRow(tires.lastId + 1, resp'.req)}

C3_CreateTire == [][C3_CreateTireStep]_vars

\* C4: no two rows of the table, soft-deleted or not, share an invoice
\* number; a create is answered 201 (its row stored under the returned id),
\* 409, or 400 for a dangling reference; and of two answered creates with
\* the same invoice number, whether they ran one after the other or raced,
\* at most one got 201 and, both payloads referencing existing rows, the
\* other got 409.
C4_InvoiceNumberConflict ==
    /\ \A i, j \in 1..Len(collection) :
          i # j => collection[i].invoice_number # collection[j].invoice_number
    /\ \A c \in Clients : done[c].status # 0 =>
          /\ done[c].status \in {201, 409, 400}
          /\ done[c].status = 400 =>
                ForeignKeyViolation(done[c].payload.company_id, done[c].payload.user_id)
          /\ done[c].status = 201 =>
                \E r \in Rows(collection) :
                    /\ r.id = done[c].body[1]
                    /\ r.invoice_number = done[c].payload.invoice_number
    /\ \A c, d \in Clients :
          (/\ c # d
           /\ done[c].status # 0
           /\ done[d].status # 0
           /\ done[c].payload.invoice_number = done[d].payload.invoice_number) =>
              /\ ~(done[c].status = 201 /\ done[d].status = 201)
              /\ (/\ ~ForeignKeyViolation(done[c].payload.company_id, done[c].payload.user_id)
                  /\ ~ForeignKeyViolation(done[d].payload.company_id, done[d].payload.user_id)) =>
                     (done[c].status = 409 \/ done[d].status = 409)

\* C4 witness: two creates for one invoice number raced; the one whose
\* INSERT ran first got 201 and the other 409.
C4_Witness ==
    \E c, d \in Clients :
        /\ c # d
        /\ done[c].status = 201
        /\ done[c].raced
        /\ done[d].status = 409
        /\ done[d].payload.invoice_number = done[c].payload.invoice_number

Supplied(upd) == {f \in Fields : upd[f] # None}

\* the rows other than the one with the given id are the same in both tables
OthersUnchanged(old, new, id) ==
    /\ Len(new) = Len(old)
    /\ \A i \in 1..Len(old) : old[i].id # id => new[i] = old[i]

\* C5: an update with no supplied field is answered 400 and changes no row;
\* an update with exactly one supplied field addressed to a live record
\* leaves every other record as it was and, in that record, every column
\* but the supplied one (is_deleted included); when it is answered 200 the
\* supplied column holds the supplied value.
C5_UpdateStep ==
    resp'.op = "update_collection" =>
        LET id == resp'.req.id
            upd == resp'.req.upd
        IN  /\ Supplied(upd) = {} => (resp'.status = 400 /\ collection' = collection)
            /\ (Cardinality(Supplied(upd)) = 1 /\ Live(collection, id)) =>
                  /\ OthersUnchanged(collection, collection', id)
                  /\ \A i \in 1..Len(collection) : collection[i].id = id =>
                        /\ collection'[i].id = id
                        /\ \A g \in (DOMAIN collection[i]) \ Supplied(upd) :
                              collection'[i][g] = collection[i][g]
                        /\ resp'.status = 200 =>
                              \A f \in Supplied(upd) :
                                  collection'[i][f] = ColumnValue(f, upd[f])

C5_PartialUpdate == [][C5_UpdateStep]_vars

\* C5 witness: a one-field update answered 200 on a table of two rows, the
\* addressed row holding the supplied value.
C5_Witness ==
    /\ resp.op = "update_collection"
    /\ resp.status = 200
    /\ Supplied(resp.req.upd) = {"company_id"}
    /\ Len(collection) = 2
    /\ \E r \in Rows(collection) :
          r.id = resp.req.id /\ r.company_id = Val(resp.req.upd["company_id"])

\* C6: update_collection with a supplied field and soft_delete_collection
\* addressed to an id that is absent or soft-deleted answer 404 and leave
\* every row unchanged; update_tire and delete_tire addressed to an id that
\* is not in the catalog answer 404.
C6_NotFoundStep ==
    /\ (/\ resp'.op = "update_collection"
        /\ Supplied(resp'.req.upd) # {}
        /\ ~Live(collection, resp'.req.id)) =>
           (resp'.status = 404 /\ collection' = collection)
    /\ (resp'.op = "soft_delete_collection" /\ ~Live(collection, resp'.req)) =>
           (resp'.status = 404 /\ collection' = collection)
    /\ (/\ resp'.op = "update_tire"
        /\ ~\E t \in tires.rows : t.id = resp'.req.id) => resp'.status = 404
    /\ (/\ resp'.op = "delete_tire"
        /\ ~\E t \in tires.rows : t.id = resp'.req) => resp'.status = 404

C6_NotFound == [][C6_NotFoundStep]_vars

(***************************************************************************)
(* Bulk upload: what each data row of a file must come to, stated row by   *)
(* row from the table before the upload rather than by running the loop.   *)
(***************************************************************************)
\* the row converts and references existing rows
WellFormed(columns, row) ==
    /\ RowParams(columns, row).ok
    /\ ~ForeignKeyViolation(Val(row.company_id), Val(row.user_id))

\* 1-based indices of the data rows whose INSERT must succeed: well-formed,
\* the invoice number neither in the table nor in an earlier well-formed row
MustInsert(tbl, file) ==
    {k \in 1..Len(file.rows) :
        /\ WellFormed(file.columns, file.rows[k])
        /\ ~\E r \in Rows(tbl) : r.invoice_number = Val(file.rows[k].invoice_number)
        /\ \A j \in 1..(k - 1) :
              WellFormed(file.columns, file.rows[j]) =>
                  file.rows[j].invoice_number # file.rows[k].invoice_number}

MustFail(tbl, file) == (1..Len(file.rows)) \ MustInsert(tbl, file)

Accepted(file) ==
    /\ file.ext \in {".csv", ".xlsx", ".xls"}
    /\ file.readable
    /\ Range(required_cols) \subseteq file.columns

\* C7: for a file with every required column, each data row is attempted
\* whatever became of the rows before it: the table grows by exactly the
\* rows that must insert, in file order, keeping the rows it had; errors has
\* one entry per failing row; inserted is the number of inserted rows,
\* failed the number of failing rows and the length of errors, total_rows
\* their sum, and success is true iff inserted >= 1.
C7_BulkStep ==
    (resp'.op = "bulk_upload_collections" /\ Accepted(resp'.req)) =>
        LET file == resp'.req
            ins == MustInsert(collection, file)
            body == resp'.body
        IN  /\ resp'.status = 200
            /\ body.total_rows = Len(file.rows)
            /\ body.inserted = Cardinality(ins)
            /\ body.failed = Cardinality(MustFail(collection, file))
            /\ body.failed = Len(body.errors)
            /\ body.total_rows = body.inserted + body.failed
            /\ body.success = (body.inserted >= 1)
            /\ Len(collection') = Len(collection) + Cardinality(ins)
            /\ SubSeq(collection', 1, Len(collection)) = collection
            /\ \A k \in ins :
                  \E i \in (Len(collection) + 1)..Len(collection') :
                      /\ collection'[i].invoice_number = Val(file.rows[k].invoice_number)
                      /\ i - Len(collection) = Cardinality({j \in ins : j <= k})

C7_BulkRowsIndependent == [][C7_BulkStep]_vars

\* C7 witness: the first data row failed and the row after it was inserted,
\* next to a row an earlier upload had inserted.
C7_Witness ==
    /\ resp.op = "bulk_upload_collections"
    /\ resp.status = 200
    /\ Len(resp.req.rows) = 2
    /\ resp.body.inserted = 1
    /\ resp.body.failed = 1
    /\ resp.body.errors[1].row = 2
    /\ Len(collection) = 2
    /\ collection[2].invoice_number = Val(resp.req.rows[2].invoice_number)

\* C8: an upload whose extension is not .csv, .xlsx or .xls, or whose header
\* lacks a required column, is answered 400 and leaves the table as it was;
\* for missing columns the detail lists exactly the missing names.
C8_RejectStep ==
    resp'.op = "bulk_upload_collections" =>
        LET file == resp'.req
            missing == Range(required_cols) \ file.columns
        IN  /\ file.ext \notin {".csv", ".xlsx", ".xls"} =>
                  (resp'.status = 400 /\ collection' = collection)
            /\ (/\ file.ext \in {".csv", ".xlsx", ".xls"}
                /\ file.readable
                /\ missing # {}) =>
                  /\ resp'.status = 400
                  /\ collection' = collection
                  /\ Len(resp'.body) = 2
                  /\ Range(resp'.body[2]) = missing
                  /\ Len(resp'.body[2]) = Cardinality(missing)
            /\ Accepted(file) => resp'.status # 400

C8_RejectedBeforeAnyRow == [][C8_RejectStep]_vars

\* C8 witness: an upload lacking two required columns, refused on a table
\* that holds rows.
C8_Witness ==
    /\ resp.op = "bulk_upload_collections"
    /\ resp.status = 400
    /\ Len(resp.body) = 2
    /\ resp.body[2] = <<"invoice_number", "branch">>
    /\ Len(collection) >= 1

BlankOrAbsent(file, row, col) == col \notin file.columns \/ row[col] = None

\* C9: a data row whose amount_paid or status is absent from the header or
\* blank in the row, and that is otherwise insertable, is inserted with
\* amount_paid 0 and status "pending" respectively, and is not reported as
\* an error.
C9_DefaultsStep ==
    (resp'.op = "bulk_upload_collections" /\ Accepted(resp'.req)) =>
        LET file == resp'.req
        IN  \A k \in 1..Len(file.rows) :
                LET row == file.rows[k]
                IN  (/\ BlankOrAbsent(file, row, "amount_paid") \/ BlankOrAbsent(file, row, "status")
                     /\ k \in MustInsert(collection, [file EXCEPT !.columns = Range(required_cols)])) =>
                        /\ \A e \in Range(resp'.body.errors) : e.row # k + 1
                        /\ \E r \in Rows(collection') \ Rows(collection) :
                              /\ r.invoice_number = Val(row.invoice_number)
                              /\ BlankOrAbsent(file, row, "amount_paid") => r.amount_paid = 0
                              /\ BlankOrAbsent(file, row, "status") => r.status = "pending"

C9_BulkDefaults == [][C9_DefaultsStep]_vars

RECURSIVE Ascending(_)
Ascending(S) ==
    IF S = {} THEN <<>>
    ELSE LET m == CHOOSE x \in S : \A y \in S : x <= y
         IN  <<m>> \o Ascending(S \ {m})

\* C10: the row numbers of the recorded errors are, in order, the 1-based
\* data-row indices of the failing rows plus 1 (0-based index plus 2), so
\* they are distinct and ascending.
C10_RowNumberStep ==
    (resp'.op = "bulk_upload_collections" /\ Accepted(resp'.req)) =>
        LET failing == Ascending(MustFail(collection, resp'.req))
            errors == resp'.body.errors
        IN  /\ Len(errors) = Len(failing)
            /\ \A i \in 1..Len(errors) : errors[i].row = failing[i] + 1

C10_ErrorRowNumbers == [][C10_RowNumberStep]_vars

\* C10 witness: both data rows of a file refused and reported as rows 2
\* and 3.
C10_Witness ==
    /\ resp.op = "bulk_upload_collections"
    /\ resp.status = 200
    /\ Len(resp.req.rows) = 2
    /\ Len(resp.body.errors) = 2
    /\ resp.body.errors[1].row = 2
    /\ resp.body.errors[2].row = 3

(***************************************************************************)
(* Pagination.                                                             *)
(***************************************************************************)
\* What a 200 list response must be, given the rows the WHERE clause
\* selects, the order (before), and the request's page and limit: page 1 and
\* limit 20 when omitted, total the number of selected rows, total_pages the
\* least number of pages of limit rows that hold them, and the data the rows
\* at positions (page-1)*limit .. page*limit-1 of the ordered selection.
PaginationOf(body, filtered, before(_, _), q) ==
    LET page == IF q.page = None THEN 1 ELSE Val(q.page)
        limit == IF q.limit = None THEN 20 ELSE Val(q.limit)
        total == Cardinality(filtered)
        first == (page - 1) * limit
    IN  /\ body.page = page
        /\ body.limit = limit
        /\ body.total = total
        /\ total = 0 => body.total_pages = 0
        /\ total > 0 =>
               /\ body.total_pages * limit >= total
               /\ (body.total_pages - 1) * limit < total
        /\ Len(body.data) <= limit
        /\ Len(body.data) = Cardinality({k \in first..(first + limit - 1) : k < total})
        /\ \A k \in 1..Len(body.data) :
               /\ body.data[k] \in filtered
               /\ Cardinality({r \in filtered : before(r, body.data[k])}) = first + k - 1

TireBefore(a, b) == a.id > b.id

\* C11: every successful response of list_collections and of list_tires, for
\* page >= 1 and limit >= 1 or omitted, has total_pages = ceil(total/limit)
\* (0 when total = 0), at most limit records, exactly the records at
\* positions (page-1)*limit .. page*limit-1 of the filtered result in the
\* endpoint's order, and uses page 1 and limit 20 when they are omitted.
C11_Pagination ==
    /\ (resp.op = "list_collections" /\ resp.status = 200 /\ resp.req.period = None) =>
           PaginationOf(resp.body,
                        {r \in Rows(collection) :
                            Matches(r, resp.req, resp.req.from_date, resp.req.to_date)},
                        Before, resp.req)
    /\ resp.op = "list_collections" => resp.status = 200
    /\ resp.op = "list_tires" =>
           /\ resp.status = 200
           /\ PaginationOf(resp.body, {r \in tires.rows : TireMatches(r, resp.req)},
                           TireBefore, resp.req)

\* a second page of limit 2 over three live records: one record, two pages
C11_Witness ==
    /\ resp.op = "list_collections"
    /\ resp.status = 200
    /\ resp.req.page = Some(2)
    /\ resp.req.limit = Some(2)
    /\ resp.body.total = 3
    /\ resp.body.total_pages = 2
    /\ Len(resp.body.data) = 1

\* C12: get_companies answers 200 with one {id, name} entry per row of the
\* companies table, also when the table is not empty.
C12_CompaniesListed ==
    resp.op = "get_companies" =>
        /\ resp.status = 200
        /\ Len(resp.body) = Len(CompanyRows)
        /\ \A i \in 1..Len(CompanyRows) :
               /\ resp.body[i].id = CompanyRows[i].id
               /\ resp.body[i].name = CompanyRows[i].name

(***************************************************************************)
(* Periods.                                                                *)
(***************************************************************************)
\* 2024-01-01 was a Monday
IsMonday(d) == (d - ToOrd(2024, 1, 1)) % 7 = 0

\* the Monday of the week (Monday to Sunday) that d is in
MondayOfWeek(d) == CHOOSE m \in (d - 6)..d : IsMonday(m)

\* C13: for every period token and every current date, get_period_dates
\* returns start <= end <= today; last_week is the Monday to Sunday right
\* before the Monday of today's week, and current_week starts on the Monday
\* of today's week.
C13_PeriodRange ==
    (resp.op = "get_period_dates" /\ resp.req.period \in Periods) =>
        LET start == resp.body.from
            end == resp.body.to
            today == resp.req.today
        IN  /\ resp.body.ok
            /\ start <= end
            /\ end <= today
            /\ resp.req.period = "last_week" =>
                   /\ start = MondayOfWeek(today) - 7
                   /\ end = MondayOfWeek(today) - 1
            /\ resp.req.period = "current_week" => start = MondayOfWeek(today)

\* last_week asked on Wednesday 2024-03-06: Monday 2024-02-26 to Sunday
\* 2024-03-03
C13_Witness ==
    /\ resp.op = "get_period_dates"
    /\ resp.req = [period |-> "last_week", today |-> ToOrd(2024, 3, 6)]
    /\ resp.body.from = ToOrd(2024, 2, 26)
    /\ resp.body.to = ToOrd(2024, 3, 3)

(***************************************************************************)
(* Filters.                                                                *)
(***************************************************************************)
\* the filter parameters a request supplies, whatever their value
SuppliedFilters(q) ==
    {f \in {"company_id", "status", "service", "branch", "from_date", "to_date"} :
        q[f] # None}

\* the predicate a supplied filter stands for
FilterHolds(r, f, v) ==
    IF f = "from_date" THEN r.invoice_date >= v
    ELSE IF f = "to_date" THEN r.invoice_date <= v
    ELSE r[f] = v

\* C14: every record of a successful list_collections response (no period
\* given) is not soft-deleted and matches every filter value the request
\* supplies, a company_id of 0 and an empty status, service or branch
\* included.
C14_EverySuppliedFilterApplies ==
    (resp.op = "list_collections" /\ resp.status = 200 /\ resp.req.period = None) =>
        \A i \in 1..Len(resp.body.data) :
            /\ ~resp.body.data[i].is_deleted
            /\ \A f \in SuppliedFilters(resp.req) :
                   FilterHolds(resp.body.data[i], f, Val(resp.req[f]))

\* C16: update_collection with at least one supplied field answers 404 only
\* when the addressed record is absent or soft-deleted, also when the
\* supplied values are the stored ones.
C16_UpdateStep ==
    (/\ resp'.op = "update_collection"
     /\ Supplied(resp'.req.upd) # {}
     /\ Live(collection, resp'.req.id))
    => resp'.status # 404

C16_NotFoundOnlyWhenAbsent == [][C16_UpdateStep]_vars

(***************************************************************************)
(* Connections.                                                            *)
(***************************************************************************)
\* a client whose call is past a successful connect and not yet finished
Connected(c) == calls[c].pc \in {"cursor", "execute", "finally"} /\ calls[c].connection # None

Finished(c) == calls[c].pc \in {"idle", "returned", "raised"}

\* the open connections are those of the calls that are running: none is
\* left by a finished call, none is shared
OnlyRunningCallsHoldConnections ==
    /\ \A c \in Clients : Finished(c) => c \notin connections
    /\ \A c \in connections : Connected(c) /\ calls[c].connection = Some(c)

\* a call that finishes hands its own outcome to the handler: the value on
\* the success path, the statement's, the cursor's or the connect error on
\* the failure paths (the failed connect is not followed by an attempt to
\* close the connection there is not), and its connection is closed
CallFinishes ==
    \A c \in Clients :
        (calls[c].pc = "finally" /\ calls'[c].pc # "finally") =>
            /\ c \notin connections'
            /\ calls'[c].pc = (IF calls[c].outcome.raised THEN "raised" ELSE "returned")
            /\ calls'[c].outcome = calls[c].outcome
            /\ calls[c].connection = None =>
                   /\ calls[c].outcome = Raise(ConnectError)
                   /\ connections' = connections

\* C15: every call of query, query_one and execute runs on a connection of
\* its own that is closed when the call returns or raises (statement error,
\* cursor error); no finished call leaves a connection open, and a failed
\* connect raises its error without closing anything.
C15_ConnectionsClosed == [][OnlyRunningCallsHoldConnections' /\ CallFinishes]_vars

\* client 1's insert raised a duplicate-entry error and its connection is
\* closed, while client 2's call holds the only open connection
C15_Witness ==
    /\ calls[1].pc = "raised"
    /\ calls[1].outcome = Raise(DuplicateEntryMsg)
    /\ connections = {2}
    /\ calls[2].pc = "execute"

(***************************************************************************)
(* Imported rows and the create schema.                                    *)
(***************************************************************************)
\* C17: every row of the collection table, whichever endpoint inserted it,
\* meets the constraints of the create schema (amount >= 0, amount_paid >= 0,
\* company_id > 0, user_id > 0, non-empty invoice_number and customer_name,
\* service, status and branch in their enums); a bulk row that does not is
\* reported as a row error and not inserted.
C17_RowsMeetCreateSchema ==
    \A r \in Rows(collection) : CollectionBase(r)

(***************************************************************************)
(* Pagination metadata under concurrent writes.                            *)
(***************************************************************************)
\* C18: in every list response, also one whose two statements had writes of
\* other requests between them, the data has at most total records, and
\* total = 0 comes with total_pages = 0 and an empty data list.
C18_MetadataConsistent ==
    \A c \in Clients :
        done[c].status = 200 =>
            /\ Len(done[c].body.data) <= done[c].body.total
            /\ done[c].body.total = 0 =>
                   /\ done[c].body.total_pages = 0
                   /\ done[c].body.data = <<>>

====
